---- MODULE Spec2Model ----
(***************************************************************************)
(* MovieService (src/src/services/movie.service.js): six read operations   *)
(* over a property graph of movies, people, genres and users.  Each call   *)
(* opens a driver session, runs getUserFavorites and one Cypher query in   *)
(* a single executeRead, and maps the records.  The Cypher queries are     *)
(* modelled by what they compute on a small graph.                         *)
(***************************************************************************)
EXTENDS Integers, Sequences, FiniteSets, TLC

\* ------------------------------------------------------------------ bounds
MaxEdge == 2
MaxPage == 2
MaxCalls == 2
MaxWrites == 1

\* --------------------------------------------------------------- the graph
\* The Cypher null; property values of the model are positive integers.
NULL == 0

Movies == {"m1", "m2", "m3"}
Genres == {"g1"}
People == {"p1", "p2"}
Users == {"u1", "u2"}
Nodes == Movies \cup Genres \cup People \cup Users
Ratings == {1, 2}

\* Relationship slots <<type, start node, end node>> of the schema the queries
\* rely on: (:Movie)-[:IN_GENRE]->(:Genre), (:Person)-[:ACTED_IN|DIRECTED]->(:Movie),
\* (:User)-[:RATED]->(:Movie).
GenreSlots == {"IN_GENRE"} \X Movies \X Genres
PersonSlots == {"ACTED_IN", "DIRECTED"} \X People \X Movies
RatedSlots == {"RATED"} \X Users \X Movies
EdgeSlots == GenreSlots \cup PersonSlots \cup RatedSlots

VARIABLES
    rating,        \* m.imdbRating of each Movie node, NULL when absent
    edges,         \* number of relationships in each slot
    hasFavorite,   \* the (:User)-[:HAS_FAVORITE]->(m) relationships, <<user, movie>>
    pc,            \* position of the call in progress: idle, fav, main, post
    op,            \* the operation called
    args,          \* its arguments
    favorites,     \* const favorites, the value getUserFavorites returned
    favAtRead,     \* the HAS_FAVORITE relationships when getUserFavorites returned
    favAtRun,      \* the HAS_FAVORITE relationships when the main query ran
    ordered,       \* the rows of the main query after ORDER BY, before SKIP and LIMIT
    res,           \* res.records of the main query
    queryText,     \* what was spliced into the text given to tx.run
    reads,         \* number of tx.run calls of this call
    outcome,       \* pending, ok, or the error the call ended with
    result,        \* the value the call returned
    openSessions,  \* sessions opened by driver.session() and not closed
    calls,         \* number of calls started
    writes         \* number of writes of other clients so far

graph == <<rating, edges>>
call == <<pc, op, args, favorites, favAtRead, favAtRun, ordered, res, queryText, reads, outcome, result>>
vars == <<rating, edges, hasFavorite, pc, op, args, favorites, favAtRead, favAtRun, ordered, res,
          queryText, reads, outcome, result, openSessions, calls, writes>>

\* title is present on every Movie node; the fixture's titles, as their rank.
Title(m) == CASE m = "m1" -> 2 [] m = "m2" -> 1 [] OTHER -> 3

\* m.`field`: a property no node carries is null.
Prop(m, field) ==
    CASE field = "title" -> Title(m)
      [] field = "imdbRating" -> rating[m]
      [] OTHER -> NULL

GenreName(g) == "Drama"
PersonName(p) == IF p = "p1" THEN "Al" ELSE "Bo"

RECURSIVE SumOver(_, _)
SumOver(S, f) ==
    IF S = {} THEN 0
    ELSE LET x == CHOOSE y \in S : TRUE IN f[x] + SumOver(S \ {x}, f)

Min(a, b) == IF a <= b THEN a ELSE b

\* ------------------------------------------------------------ Cypher clauses
\* ORDER BY key ASC|DESC: whether a row with key ka must come before one with
\* key kb.  null sorts last ascending and first descending.
Before(ka, kb, order) ==
    IF order = "ASC"
    THEN ka # NULL /\ (kb = NULL \/ ka < kb)
    ELSE (ka = NULL /\ kb # NULL) \/ (ka # NULL /\ kb # NULL /\ ka > kb)

\* Every sequence ORDER BY may produce from the rows cnt (cnt[x] rows of x):
\* rows with equal keys come in any order.
RECURSIVE SortedSeqs(_, _, _)
SortedSeqs(cnt, key, order) ==
    LET present == {x \in DOMAIN cnt : cnt[x] > 0}
        first == {x \in present : \A y \in present : ~Before(key[y], key[x], order)}
    IN  IF present = {} THEN {<<>>}
        ELSE UNION {{<<x>> \o s : s \in SortedSeqs([cnt EXCEPT ![x] = @ - 1], key, order)}
                    : x \in first}

\* SKIP $skip
Skip(s, k) == IF k >= Len(s) THEN <<>> ELSE SubSeq(s, k + 1, Len(s))

\* LIMIT $limit
Limit(s, n) == SubSeq(s, 1, Min(n, Len(s)))

PageLimitFirst(s, skip, limit) == Skip(Limit(s, limit), skip)

\* ORDER BY ... SKIP $skip LIMIT $limit, applied to the ordered rows
Page(s, skip, limit) == Limit(Skip(s, skip), limit)

\* ------------------------------------------------------- getUserFavorites
\* MATCH (:User {userId: $userId})-[:HAS_FAVORITE]->(m) RETURN m.tmdbId;
\* the list is only used for membership and is kept as a set.
FavoritesOf(userId, hf) == {m \in Movies : \E u \in Users : u = userId /\ <<u, m>> \in hf}

\* ------------------------------------------------------------ listing rows
\* all: MATCH (m:Movie) WHERE m.`sort` IS NOT NULL
AllRows(sort) == [m \in Movies |-> IF Prop(m, sort) # NULL THEN 1 ELSE 0]

\* getByGenre: MATCH (:Genre {name: $name})<-[:IN_GENRE]-(m:Movie)
GenreRows(name) ==
    [m \in Movies |->
        SumOver({g \in Genres : GenreName(g) = name},
                [g \in Genres |-> edges[<<"IN_GENRE", m, g>>]])]

\* getForActor, getForDirector: MATCH (:Person {tmdbId: $actorId})-[:type]->(m:Movie)
PersonRows(type, id) ==
    [m \in Movies |->
        SumOver({p \in People : p = id}, [p \in People |-> edges[<<type, p, m>>]])]

SortKey(sort) == [m \in Movies |-> Prop(m, sort)]

ListRecordAnyUser(m, favs) ==
    [tmdbId |-> m, title |-> Title(m), imdbRating |-> rating[m],
     favorite |-> \E u \in Users : <<u, m>> \in hasFavorite]

ListRecordLive(m, favs) ==
    [tmdbId |-> m, title |-> Title(m), imdbRating |-> rating[m],
     favorite |-> m \in FavoritesOf(args.userId, hasFavorite)]

\* RETURN m { .*, favorite: m.tmdbId IN $favorites }
ListRecord(m, favs) ==
    [tmdbId |-> m, title |-> Title(m), imdbRating |-> rating[m], favorite |-> m \in favs]

\* ---------------------------------------------------------------- findById
\* [(m)<-[:type]-(x) | x.name]: one entry per relationship; the entries' order
\* is not represented, the list is the number of entries of each name.
NamesVia(type, m) ==
    [name \in {PersonName(p) : p \in People} |->
        SumOver({p \in People : PersonName(p) = name},
                [p \in People |-> edges[<<type, p, m>>]])]

GenresOf(m) ==
    [name \in {GenreName(g) : g \in Genres} |->
        SumOver({g \in Genres : GenreName(g) = name},
                [g \in Genres |-> edges[<<"IN_GENRE", m, g>>]])]

\* count{(m)<-[:RATED]-(:User)}
RatingCount(m) == SumOver(Users, [u \in Users |-> edges[<<"RATED", u, m>>]])

DetailRecord(m, id, favs) ==
    [tmdbId |-> m, title |-> Title(m), imdbRating |-> rating[m],
     favorite |-> id \in favs,
     actors |-> NamesVia("ACTED_IN", m),
     directors |-> NamesVia("DIRECTED", m),
     genres |-> GenresOf(m),
     ratingCount |-> RatingCount(m)]

\* -------------------------------------------------------- getSimilarMovies
SimTypes == {"IN_GENRE", "ACTED_IN", "DIRECTED"}

\* the slots of -[:IN_GENRE|ACTED_IN|DIRECTED]-> relationships leaving n
FromSlots(n) == {s \in EdgeSlots : s[1] \in SimTypes /\ s[2] = n}

\* (r)-[e1]->()<-[e2]-(m): pairs of slots with the same end node
PathPairs(r, m) == {p \in FromSlots(r) \X FromSlots(m) : p[1][3] = p[2][3]}

\* Number of matches of the pattern between r and m.  A relationship is bound
\* at most once in a match, so two relationships of one slot pair up only with
\* each other.
InCommon(r, m) ==
    SumOver(PathPairs(r, m),
            [p \in PathPairs(r, m) |->
                IF p[1] = p[2] THEN edges[p[1]] * (edges[p[1]] - 1)
                ELSE edges[p[1]] * edges[p[2]]])

\* WITH m, count(*) AS inCommon, over every (:Movie {tmdbId: $id})
SimCount(id, m) == SumOver({r \in Movies : r = id}, [r \in Movies |-> InCommon(r, m)])

\* WHERE m.imdbRating IS NOT NULL; one row per m.  Only Movie nodes start a
\* relationship that ends where one of the reference movie's ends.
SimRows(id) ==
    [m \in Movies |-> IF rating[m] # NULL /\ SimCount(id, m) > 0 THEN 1 ELSE 0]

\* m.imdbRating * inCommon AS score
Score(id) == [m \in Movies |-> rating[m] * SimCount(id, m)]

SimRecord(m, id, favs) ==
    [tmdbId |-> m, title |-> Title(m), imdbRating |-> rating[m],
     score |-> Score(id)[m], favorite |-> m \in favs]

\* ------------------------------------------------------------------- calls
ListOps == {"all", "getByGenre", "getForActor", "getForDirector"}
ValidOrders == {"ASC", "DESC"}

\* limit = 6, skip = 0: the defaults of the listing operations
DefaultLimit == 6
DefaultSkip == 0

NoResult == [kind |-> "none", rows |-> <<>>]
NoSplice == [sort |-> "-", order |-> "-"]
NoArgs == [sort |-> "-", order |-> "-", limit |-> 0, skip |-> 0, userId |-> "", key |-> "-"]

\* the `${sort}` and `${order}` of the template literal given to tx.run
Spliced == IF op \in ListOps THEN [sort |-> args.sort, order |-> args.order] ELSE NoSplice

\* const session = this.driver.session(), and executeRead entered
Begin(o, key, so, ord, l, k, u) ==
    /\ pc = "idle"
    /\ calls < MaxCalls
    /\ op' = o
    /\ args' = [sort |-> so, order |-> ord, limit |-> l, skip |-> k, userId |-> u,
                key |-> key]
    /\ pc' = "fav"
    /\ openSessions' = openSessions + 1
    /\ calls' = calls + 1
    /\ favorites' = {}
    /\ favAtRead' = {}
    /\ favAtRun' = {}
    /\ ordered' = <<>>
    /\ res' = <<>>
    /\ queryText' = [sort |-> "-", order |-> "-"]
    /\ reads' = 0
    /\ outcome' = "pending"
    /\ result' = [kind |-> "none", rows |-> <<>>]
    /\ UNCHANGED <<graph, hasFavorite, writes>>

All(so, ord, l, k, u) == Begin("all", "-", so, ord, l, k, u)

GetByGenre(name, so, ord, l, k, u) == Begin("getByGenre", name, so, ord, l, k, u)

GetForActor(id, so, ord, l, k, u) == Begin("getForActor", id, so, ord, l, k, u)

GetForDirector(id, so, ord, l, k, u) == Begin("getForDirector", id, so, ord, l, k, u)

FindById(id, u) == Begin("findById", id, "-", "-", 0, 0, u)

GetSimilarMovies(id, l, k, u) == Begin("getSimilarMovies", id, "-", "-", l, k, u)

\* A rejected tx.run or a throw: the promise of the call rejects where it
\* stands; no statement after the await runs.
Throw(err) ==
    /\ pc' = "idle"
    /\ outcome' = err
    /\ result' = NoResult
    /\ UNCHANGED <<graph, hasFavorite, writes, op, args, openSessions, calls>>

\* getUserFavorites: if(!userId) return [], else one tx.run
GetUserFavorites ==
    /\ pc = "fav"
    /\ IF args.userId = ""
       THEN favorites' = {} /\ reads' = reads
       ELSE favorites' = FavoritesOf(args.userId, hasFavorite) /\ reads' = reads + 1
    /\ favAtRead' = hasFavorite
    /\ pc' = "main"
    /\ UNCHANGED <<graph, hasFavorite, writes, op, args, favAtRun, ordered, res, queryText, outcome,
                   result,
                   openSessions, calls>>

\* the favorites tx.run rejects (a storage failure)
GetUserFavoritesFails ==
    /\ pc = "fav"
    /\ args.userId # ""
    /\ reads' = reads + 1
    /\ Throw("Neo4jError")
    /\ UNCHANGED <<favorites, favAtRead, favAtRun, ordered, res, queryText>>

ListRows ==
    CASE op = "all" -> AllRows(args.sort)
      [] op = "getByGenre" -> GenreRows(args.key)
      [] op = "getForActor" -> PersonRows("ACTED_IN", args.key)
      [] OTHER -> PersonRows("DIRECTED", args.key)

Ran(rows, recs) ==
    /\ pc = "main"
    /\ ordered' = rows
    /\ favAtRun' = hasFavorite
    /\ res' = recs
    /\ queryText' = Spliced
    /\ reads' = reads + 1
    /\ pc' = "post"
    /\ UNCHANGED <<graph, hasFavorite, writes, op, args, favorites, favAtRead, outcome, result,
                   openSessions, calls>>

\* the main tx.run of all, getByGenre, getForActor, getForDirector
RunListing ==
    /\ op \in ListOps
    /\ args.order \in ValidOrders
    /\ \E s \in SortedSeqs(ListRows, SortKey(args.sort), args.order) :
          LET page == Page(s, args.skip, args.limit)
          IN  Ran(s, [i \in 1..Len(page) |-> ListRecord(page[i], favorites)])

\* ORDER BY m.`sort` followed by anything but ASC or DESC does not parse
RunListingSyntaxError ==
    /\ pc = "main"
    /\ op \in ListOps
    /\ args.order \notin ValidOrders
    /\ queryText' = Spliced
    /\ reads' = reads + 1
    /\ Throw("Neo4jError")
    /\ UNCHANGED <<favorites, favAtRead, favAtRun, ordered, res>>

\* the main tx.run of findById: MATCH (m:Movie {tmdbId: $id})
RunFindById ==
    /\ op = "findById"
    /\ \E s \in SortedSeqs([m \in Movies |-> IF m = args.key THEN 1 ELSE 0],
                           SortKey("-"), "ASC") :
          Ran(s, [i \in 1..Len(s) |-> DetailRecord(s[i], args.key, favorites)])

\* the main tx.run of getSimilarMovies
RunSimilar ==
    /\ op = "getSimilarMovies"
    /\ \E s \in SortedSeqs(SimRows(args.key), Score(args.key), "DESC") :
          LET page == Page(s, args.skip, args.limit)
          IN  Ran(s, [i \in 1..Len(page) |-> SimRecord(page[i], args.key, favorites)])

\* the main tx.run rejects (a storage failure)
RunFails ==
    /\ pc = "main"
    /\ queryText' = Spliced
    /\ reads' = reads + 1
    /\ Throw("Neo4jError")
    /\ UNCHANGED <<favorites, favAtRead, favAtRun, ordered, res>>

Returned(value) ==
    /\ pc = "post"
    /\ pc' = "idle"
    /\ outcome' = "ok"
    /\ result' = value
    /\ UNCHANGED <<graph, hasFavorite, writes, op, args, favorites, favAtRead, favAtRun, ordered,
                   res, queryText, reads, calls>>

\* all, getSimilarMovies: map the records, await session.close(), return
ReturnClosed ==
    /\ op \in {"all", "getSimilarMovies"}
    /\ Returned([kind |-> "list", rows |-> res])
    /\ openSessions' = openSessions - 1

\* getByGenre, getForActor, getForDirector: map the records, return
ReturnList ==
    /\ op \in {"getByGenre", "getForActor", "getForDirector"}
    /\ Returned([kind |-> "list", rows |-> res])
    /\ UNCHANGED openSessions

\* findById: const [first] = res.records; first.get('movie')
ReturnFirst ==
    /\ op = "findById"
    /\ Len(res) > 0
    /\ Returned([kind |-> "single", rows |-> <<res[1]>>])
    /\ UNCHANGED openSessions

\* findById with no record: first is undefined and first.get throws
ReturnFirstOfNone ==
    /\ pc = "post"
    /\ op = "findById"
    /\ Len(res) = 0
    /\ Throw("TypeError")
    /\ UNCHANGED <<favorites, favAtRead, favAtRun, ordered, res, queryText, reads>>

\* another client of the database adds or removes a HAS_FAVORITE relationship
Write ==
    /\ writes < MaxWrites
    /\ writes' = writes + 1
    /\ \E u \in Users, m \in Movies :
          hasFavorite' = IF <<u, m>> \in hasFavorite
                         THEN hasFavorite \ {<<u, m>>}
                         ELSE hasFavorite \cup {<<u, m>>}
    /\ UNCHANGED <<graph, call, openSessions, calls>>

Step ==
    \/ GetUserFavorites
    \/ GetUserFavoritesFails
    \/ RunListing
    \/ RunListingSyntaxError
    \/ RunFindById
    \/ RunSimilar
    \/ RunFails
    \/ ReturnClosed
    \/ ReturnList
    \/ ReturnFirst
    \/ ReturnFirstOfNone

\* ------------------------------------------------------------ the database
FixtureRating == [m \in Movies |-> CASE m = "m1" -> 2 [] m = "m2" -> 1 [] OTHER -> NULL]

FixtureEdges ==
    [s \in EdgeSlots |->
        IF s \in GenreSlots
             \cup {<<"ACTED_IN", "p1", "m1">>, <<"ACTED_IN", "p1", "m2">>,
                   <<"ACTED_IN", "p2", "m2">>, <<"DIRECTED", "p2", "m1">>,
                   <<"DIRECTED", "p2", "m3">>, <<"RATED", "u1", "m1">>,
                   <<"RATED", "u2", "m1">>, <<"RATED", "u1", "m3">>}
        THEN 1 ELSE 0]

InitCall ==
    /\ pc = "idle"
    /\ op = "-"
    /\ args = NoArgs
    /\ favorites = {}
    /\ favAtRead = {}
    /\ favAtRun = {}
    /\ ordered = <<>>
    /\ res = <<>>
    /\ queryText = NoSplice
    /\ reads = 0
    /\ outcome = "pending"
    /\ result = NoResult
    /\ openSessions = 0
    /\ writes = 0

\* ---------------------------------------------------------- specifications
Sorts == {"title", "imdbRating", "bogus"}
Orders == {"ASC", "DESC", "BAD"}
UserIds == {"", "u1", "u9"}
GenreNames == {"Drama", "Nope"}
PersonIds == {"p1", "p2", "p9"}
MovieIds == {"m1", "m2", "m3", "m9"}

Calls(sorts, orders, limits, skips, userIds, names, persons, ids) ==
    \/ \E so \in sorts, o \in orders, l \in limits, k \in skips, u \in userIds :
          \/ All(so, o, l, k, u)
          \/ \E n \in names : GetByGenre(n, so, o, l, k, u)
          \/ \E id \in persons : GetForActor(id, so, o, l, k, u)
          \/ \E id \in persons : GetForDirector(id, so, o, l, k, u)
    \/ \E id \in ids, u \in userIds : FindById(id, u)
    \/ \E id \in ids, l \in limits, k \in skips, u \in userIds :
          GetSimilarMovies(id, l, k, u)

\* Spec: the fixture graph, any favorites of u1 and one or none of u2; callers
\* pass any sort and order, with the default page.
FavoriteFamily ==
    {f \cup g : f \in SUBSET ({"u1"} \X Movies), g \in SUBSET {<<"u2", "m3">>}}

Init ==
    /\ rating = FixtureRating
    /\ edges = FixtureEdges
    /\ hasFavorite \in FavoriteFamily
    /\ calls = 0
    /\ InitCall

Next ==
    \/ Calls(Sorts, Orders, {DefaultLimit}, {DefaultSkip}, UserIds, GenreNames,
             {"p1", "p9"}, {"m1", "m9"})
    \/ Step

Spec == Init /\ [][Next]_vars

\* SpecWrite: the same graph while another client adds and removes favorites.
NextWrite ==
    \/ Calls({"title"}, {"ASC", "BAD"}, {DefaultLimit}, {DefaultSkip}, UserIds, {"Drama"},
             {"p1"}, {"m1", "m9"})
    \/ Step
    \/ Write

SpecWrite == Init /\ [][NextWrite]_vars

\* SpecQuery: one call on a graph that differs from the fixture in its ratings
\* or in its IN_GENRE relationships, for every page of up to MaxPage rows
\* after up to MaxPage skipped rows.
GenreEdges(g) == [s \in EdgeSlots |-> IF s \in GenreSlots THEN g[s[2]] ELSE FixtureEdges[s]]

InitQuery ==
    /\ \/ rating \in [Movies -> {NULL} \cup Ratings] /\ edges = FixtureEdges
       \/ rating = FixtureRating /\ edges \in {GenreEdges(g) : g \in [Movies -> 0..MaxEdge]}
    /\ hasFavorite = {<<"u1", "m2">>, <<"u2", "m3">>}
    /\ calls = MaxCalls - 1
    /\ InitCall

NextQuery ==
    \/ Calls({"title", "imdbRating"}, Orders, 0..MaxPage, 0..MaxPage, {"u1"}, {"Drama"},
             {"p2"},
             {"m1", "m2", "m3", "m9"})
    \/ Step

SpecQuery == InitQuery /\ [][NextQuery]_vars

\* ------------------------------------------------------------------ claims
Finished == pc = "idle" /\ outcome # "pending"
ReturnedOk == pc = "idle" /\ outcome = "ok"
Max(a, b) == IF a >= b THEN a ELSE b

\* C1: after any sequence of finished calls no session is left open: every
\* call closes the session it opened, on normal return and on failure.
C1_NoSessionLeftOpen == pc = "idle" => openSessions = 0

\* The allow-list of sortable attributes of the SortSpec Validator.
SortableFields == {"title", "imdbRating"}

\* C2: whatever sort and order the caller passes, the text given to tx.run by
\* a listing operation has an allow-listed field and ASC or DESC spliced in;
\* a call with any other sort or order runs no query.
C2_OnlyValidatedSortSpliced ==
    queryText.sort # "-" =>
        queryText.sort \in SortableFields /\ queryText.order \in ValidOrders

\* C3: findById whose main query ran ends with NotFound when no Movie has the
\* id, and with exactly one record, not a list, when one has.
C3_FindByIdNotFound ==
    (Finished /\ op = "findById" /\ outcome # "Neo4jError") =>
        IF args.key \in Movies
        THEN outcome = "ok" /\ result.kind = "single" /\ Len(result.rows) = 1
        ELSE outcome = "NotFound"

\* C4: the page a listing operation or getSimilarMovies returns has at most
\* limit items and is exactly the items at positions skip+1 .. skip+limit of
\* the ordered rows (empty when skip is at or beyond their number).
C4_PageIsSkipThenLimit ==
    (ReturnedOk /\ op # "findById") =>
        /\ Len(result.rows) <= args.limit
        /\ Len(result.rows) = Min(args.limit, Max(0, Len(ordered) - args.skip))
        /\ \A i \in 1..Len(result.rows) : result.rows[i].tmdbId = ordered[args.skip + i]

C4_Witness ==
    /\ ReturnedOk
    /\ op = "getByGenre"
    /\ args.skip = 1
    /\ args.limit = 2
    /\ Len(ordered) >= 4
    /\ Len(result.rows) = 2

\* C5: with no other client writing, every returned record's favorite flag is
\* true exactly when a HAS_FAVORITE relationship leads from the user named by
\* userId to the record's movie; with no userId or an unknown one, all false.
C5_FavoriteFlag ==
    ReturnedOk =>
        \A i \in 1..Len(result.rows) :
            result.rows[i].favorite =
                (\E u \in Users :
                    u = args.userId /\ <<u, result.rows[i].tmdbId>> \in hasFavorite)

C5_Witness ==
    /\ ReturnedOk
    /\ op = "getByGenre"
    /\ args.userId = "u1"
    /\ \E i, j \in 1..Len(result.rows) :
          /\ result.rows[i].favorite
          /\ ~result.rows[j].favorite
          /\ <<"u2", result.rows[j].tmdbId>> \in hasFavorite

\* the connections the two movies share: for every genre or person node, the
\* relationships between it and r times those between it and m
SharedPaths(r, m) ==
    SumOver(Genres, [g \in Genres |-> edges[<<"IN_GENRE", r, g>>] * edges[<<"IN_GENRE", m, g>>]])
    + SumOver(People,
              [p \in People |->
                  (edges[<<"ACTED_IN", p, r>>] + edges[<<"DIRECTED", p, r>>])
                  * (edges[<<"ACTED_IN", p, m>>] + edges[<<"DIRECTED", p, m>>])])

\* C6: getSimilarMovies scores each other movie imdbRating times the number of
\* two-hop paths to the reference movie through a shared genre, actor or
\* director, leaves out the movies without rating, and orders by score
\* descending.
C6_SimilarityScore ==
    (ReturnedOk /\ op = "getSimilarMovies" /\ args.key \in Movies) =>
        /\ \A i \in 1..Len(result.rows) :
              LET row == result.rows[i]
              IN  /\ row.imdbRating # NULL
                  /\ row.tmdbId # args.key =>
                        row.score = row.imdbRating * SharedPaths(args.key, row.tmdbId)
        /\ \A i, j \in 1..Len(result.rows) :
              i < j => result.rows[i].score >= result.rows[j].score

\* C7: the result of getSimilarMovies(id) never contains the movie id itself.
C7_ReferenceExcluded ==
    (ReturnedOk /\ op = "getSimilarMovies") =>
        \A i \in 1..Len(result.rows) : result.rows[i].tmdbId # args.key

\* C8: the record findById returns names no actor, director or genre twice,
\* and its ratingCount is the number of RATED relationships into the movie.
C8_DetailLists ==
    (ReturnedOk /\ op = "findById") =>
        LET row == result.rows[1]
        IN  /\ \A n \in DOMAIN row.actors : row.actors[n] <= 1
            /\ \A n \in DOMAIN row.directors : row.directors[n] <= 1
            /\ \A n \in DOMAIN row.genres : row.genres[n] <= 1
            /\ row.ratingCount =
                  SumOver({s \in RatedSlots : s[3] = row.tmdbId}, edges)

\* C9: for a valid sort field and direction the page of a listing operation
\* is ordered by that field in that direction and holds no movie without a
\* value for it.
C9_SortedWithoutNulls ==
    (ReturnedOk /\ op \in ListOps /\ args.sort \in SortableFields) =>
        /\ \A i \in 1..Len(result.rows) : Prop(result.rows[i].tmdbId, args.sort) # NULL
        /\ \A i, j \in 1..Len(result.rows) :
              i < j => ~Before(Prop(result.rows[j].tmdbId, args.sort),
                               Prop(result.rows[i].tmdbId, args.sort), args.order)

\* C10: the favorites read is over before the main query starts and is
\* skipped when userId is empty, so the main query is then the only read; the
\* flags of the records are those of the favorites read, whatever another
\* client wrote between the two reads.
C10_FavoritesReadOnceBeforeMain ==
    /\ pc = "main" => reads = (IF args.userId = "" THEN 0 ELSE 1)
    /\ (pc = "post" \/ ReturnedOk) =>
          /\ reads = (IF args.userId = "" THEN 1 ELSE 2)
          /\ \A i \in 1..Len(res) :
                res[i].favorite = (res[i].tmdbId \in FavoritesOf(args.userId, favAtRead))
    /\ ReturnedOk => \A i \in 1..Len(result.rows) : result.rows[i] = res[i]

C10_Witness ==
    /\ ReturnedOk
    /\ op = "all"
    /\ args.userId = "u1"
    /\ \E i \in 1..Len(result.rows) :
          result.rows[i].favorite # (<<"u1", result.rows[i].tmdbId>> \in favAtRun)

====
